---- MODULE Spec2Model ----
(***************************************************************************)
(* The secondary-index layer of micro's model package (Model: Save, Read,  *)
(* List, Delete) over an ordered key-value store, and its earlier variant  *)
(* (DB: Save, List).                                                       *)
(*                                                                         *)
(* Strings are sequences of Unicode code points; the store orders its keys *)
(* by bytes, which for UTF-8 is the order of the code points.  A Go value  *)
(* held in an interface{} is a record [t, s, n]: its dynamic type t, its   *)
(* text s (strings) and its number n (numbers; 0/1 for bool).              *)
(***************************************************************************)
EXTENDS Integers, Sequences, FiniteSets, TLC

VARIABLES
    model,   \* the model struct d: [namespace, indexes, options], fixed at construction
    store,   \* the key-value store: a function from keys to serialized records
    last,    \* the call that returned in the last step, when it was one step:
             \* [op, arg, result, out, pre, fail]; no call after any other step
    calls,   \* number of Save and Delete calls made so far
    live,    \* history: identity -> the record of its last successful Save, until deleted
    deleted, \* history: whether a Delete call was made
    procs    \* the calls of the two callers whose calls may overlap: position and locals

vars == <<model, store, last, calls, live, deleted, procs>>

(***************************** characters **********************************)
Colon == 58
Space == 32
Zero == 48
Minus == 45
MaxRune == 1114111
SurrogateMin == 55296
SurrogateMax == 57343
RuneError == 65533
IntPadWidth == 19
DefaultPadLength == 16
UnitSep == 31
ShortPadLength == 2

\* "by", "Ordered", "Desc", "<nil>", "true", "false"
StrBy == <<98, 121>>
StrOrdered == <<79, 114, 100, 101, 114, 101, 100>>
StrDesc == <<68, 101, 115, 99>>
StrNil == <<60, 110, 105, 108, 62>>
StrTrue == <<116, 114, 117, 101>>
StrFalse == <<102, 97, 108, 115, 101>>

\* field names "id", "email", "age"
FId == <<105, 100>>
FEmail == <<101, 109, 97, 105, 108>>
FAge == <<97, 103, 101>>

\* the namespace the models are constructed with: "u"
StrU == <<117>>

(******************************* Go values *********************************)
Nil == [t |-> "nil", s |-> <<>>, n |-> 0]
GoString(s) == [t |-> "string", s |-> s, n |-> 0]
GoInt(n) == [t |-> "int", s |-> <<>>, n |-> n]
GoInt64(n) == [t |-> "int64", s |-> <<>>, n |-> n]
GoFloat64(n) == [t |-> "float64", s |-> <<>>, n |-> n]
GoBool(b) == [t |-> "bool", s |-> <<>>, n |-> IF b THEN 1 ELSE 0]
JsonNumber(n) == [t |-> "json.Number", s |-> <<>>, n |-> n]

\* m[f] of a Go map: the nil interface when the key is absent
Get(m, f) == IF f \in DOMAIN m THEN m[f] ELSE Nil

\* json.Marshal of one field value: the JSON token
MarshalValue(v) ==
    CASE v.t = "string" -> [t |-> "string", s |-> v.s, n |-> 0]
      [] v.t \in {"int", "int64", "float64", "json.Number"} ->
            [t |-> "number", s |-> <<>>, n |-> v.n]
      [] v.t = "bool" -> [t |-> "bool", s |-> <<>>, n |-> v.n]
      [] OTHER -> [t |-> "null", s |-> <<>>, n |-> 0]

\* json.Marshal(instance): the serialized record
Marshal(instance) == [f \in DOMAIN instance |-> MarshalValue(instance[f])]

\* Decoder.UseNumber + Decode into map[string]interface{}: numbers stay json.Number
DecodeUseNumberValue(j) ==
    CASE j.t = "string" -> GoString(j.s)
      [] j.t = "number" -> JsonNumber(j.n)
      [] j.t = "bool" -> [t |-> "bool", s |-> <<>>, n |-> j.n]
      [] OTHER -> Nil

DecodeUseNumber(js) == [f \in DOMAIN js |-> DecodeUseNumberValue(js[f])]

\* json.Unmarshal into map[string]interface{}: numbers become float64
UnmarshalValue(j) ==
    CASE j.t = "string" -> GoString(j.s)
      [] j.t = "number" -> GoFloat64(j.n)
      [] j.t = "bool" -> [t |-> "bool", s |-> <<>>, n |-> j.n]
      [] OTHER -> Nil

Unmarshal(js) == [f \in DOMAIN js |-> UnmarshalValue(js[f])]

(****************************** formatting *********************************)
RECURSIVE Digits(_)
\* the decimal digits of n >= 0, as characters
Digits(n) == IF n < 10 THEN <<Zero + n>> ELSE Digits(n \div 10) \o <<Zero + (n % 10)>>

RECURSIVE Repeat(_, _)
Repeat(c, k) == IF k <= 0 THEN <<>> ELSE <<c>> \o Repeat(c, k - 1)

\* fmt.Sprintf("%d", n)
Itoa(n) == IF n < 0 THEN <<Minus>> \o Digits(0 - n) ELSE Digits(n)

\* fmt.Sprintf("%019d", n): zero padded to width 19, the sign counted in the width
Fmt019d(n) ==
    IF n < 0
    THEN <<Minus>> \o Repeat(Zero, IntPadWidth - 1 - Len(Digits(0 - n))) \o Digits(0 - n)
    ELSE Repeat(Zero, IntPadWidth - Len(Digits(n))) \o Digits(n)

\* the digits of math.MaxInt64 = 9223372036854775807
MaxInt64Digits == <<9, 2, 2, 3, 3, 7, 2, 0, 3, 6, 8, 5, 4, 7, 7, 5, 8, 0, 7>>

\* the 19 digits of n >= 0, most significant first, as numbers
PaddedDigits(n) ==
    LET d == Digits(n)
    IN [k \in 1..IntPadWidth |->
           IF k <= IntPadWidth - Len(d) THEN 0 ELSE d[k - (IntPadWidth - Len(d))] - Zero]

RECURSIVE SubDigits(_, _, _, _)
\* a - b on digit vectors, from position k down to 1 with the borrow carried
SubDigits(a, b, k, borrow) ==
    IF k = 0 THEN <<>>
    ELSE LET d == a[k] - b[k] - borrow
         IN SubDigits(a, b, k - 1, IF d < 0 THEN 1 ELSE 0)
                \o <<Zero + (IF d < 0 THEN d + 10 ELSE d)>>

\* the descending fragment without the subtraction from math.MaxInt64
Fmt019dNotReversed(n) == Fmt019d(n)

\* fmt.Sprintf("%019d", math.MaxInt64 - n) for 0 <= n
Fmt019dMaxInt64Minus(n) == SubDigits(MaxInt64Digits, PaddedDigits(n), IntPadWidth, 0)

\* fmt.Sprintf("%019d", math.MaxInt32 - n) for 0 <= n <= MaxInt32
MaxInt32 == 2147483647
Fmt019dMaxInt32Minus(n) == Fmt019d(MaxInt32 - n)

\* fmt's %v of a float64 holding the whole number n, 0 <= n < 10^6 (%g, shortest)
FmtFloat64(n) == Itoa(n)

\* fmt's %v of math.MaxFloat64 - f for a small f: 1.7976931348623157e+308
StrMaxFloat64 == <<49, 46, 55, 57, 55, 54, 57, 51, 49, 51, 52, 56, 54, 50, 51, 49, 53, 55,
                   101, 43, 51, 48, 56>>

\* fmt's %v of a Go value
FmtV(v) ==
    CASE v.t = "string" -> v.s
      [] v.t \in {"int", "int64", "json.Number"} -> Itoa(v.n)
      [] v.t = "float64" -> FmtFloat64(v.n)
      [] v.t = "bool" -> IF v.n = 1 THEN StrTrue ELSE StrFalse
      [] OTHER -> StrNil

\* strings.Title of a one-word field name: its first letter in upper case
Title(name) ==
    IF name = <<>> THEN <<>>
    ELSE <<IF name[1] >= 97 /\ name[1] <= 122 THEN name[1] - 32 ELSE name[1]>>
             \o SubSeq(name, 2, Len(name))

(*************************** index definitions *****************************)
queryTypeEq == "eq"
indexTypeEq == "eq"

OrderTypeUnordered == "unordered"
OrderTypeAsc == "ascending"
OrderTypeDesc == "descending"

\* ByEquality(fieldName): an ascending equality index, strings padded to 16
ByEquality(fieldName) ==
    [FieldName |-> fieldName,
     Type |-> indexTypeEq,
     Order |-> [FieldName |-> fieldName, Type |-> OrderTypeAsc],
     Unique |-> FALSE,
     StringOrderPadLength |-> DefaultPadLength,
     Base32Encode |-> FALSE]

\* defaultIndex(): the unordered equality index on "id"
defaultIndex == [ByEquality(FId) EXCEPT !.Order.Type = OrderTypeUnordered]

\* Index.ToQuery(value)
ToQuery(i, value) ==
    [FieldName |-> i.FieldName, Type |-> i.Type, Order |-> i.Order, Value |-> value]

\* Equals(fieldName, value): an ascending equality query
Equals(fieldName, value) ==
    [FieldName |-> fieldName,
     Type |-> queryTypeEq,
     Order |-> [FieldName |-> fieldName, Type |-> OrderTypeAsc],
     Value |-> value]

indexMatchesQuery(i, q) ==
    i.FieldName = q.FieldName /\ i.Type = q.Type /\ i.Order.Type = q.Order.Type

indexesMatch(i, j) ==
    i.FieldName = j.FieldName /\ i.Type = j.Type /\ i.Order.Type = j.Order.Type

(****************************** key encoder ********************************)
\* indexPrefix(i): by<Field>, byOrdered<Field>, byDescOrdered<Field>
indexPrefix(i) ==
    IF i.Order.Type # OrderTypeUnordered
    THEN StrBy \o (IF i.Order.Type = OrderTypeDesc THEN StrDesc ELSE <<>>)
               \o StrOrdered \o Title(i.FieldName)
    ELSE StrBy \o Title(i.FieldName)

\* the UTF-8 bytes of one code point
\* whether the rune is a code point a string can hold: in range, no surrogate
ValidRune(r) == r >= 0 /\ r <= MaxRune /\ ~(r >= SurrogateMin /\ r <= SurrogateMax)

\* string(runes): every rune that is no valid code point becomes U+FFFD
StringOfRunes(runes) ==
    [k \in 1..Len(runes) |-> IF ValidRune(runes[k]) THEN runes[k] ELSE RuneError]

\* the UTF-8 bytes of a rune; those of U+FFFD for a rune that is no valid code point
Utf8(c) ==
    IF ~ValidRune(c) THEN <<239, 191, 189>>
    ELSE IF c < 128 THEN <<c>>
    ELSE IF c < 2048 THEN <<192 + (c \div 64), 128 + (c % 64)>>
    ELSE IF c < 65536
         THEN <<224 + (c \div 4096), 128 + ((c \div 64) % 64), 128 + (c % 64)>>
    ELSE <<240 + (c \div 262144), 128 + ((c \div 4096) % 64),
           128 + ((c \div 64) % 64), 128 + (c % 64)>>

RECURSIVE Utf8Bytes(_)
Utf8Bytes(runes) ==
    IF runes = <<>> THEN <<>> ELSE Utf8(Head(runes)) \o Utf8Bytes(Tail(runes))

\* the 8 bits of a byte, most significant first
ByteBits(b) == [k \in 1..8 |-> (b \div (2 ^ (8 - k))) % 2]

RECURSIVE BytesBits(_)
BytesBits(bs) == IF bs = <<>> THEN <<>> ELSE ByteBits(Head(bs)) \o BytesBits(Tail(bs))

\* one character of the base32 "extended hex" alphabet 0-9A-V
Base32HexChar(v) == IF v < 10 THEN Zero + v ELSE 65 + (v - 10)

\* base32.HexEncoding.Encode(bs) with every '=' of the padding replaced by '0'
Base32HexZeroPadded(bs) ==
    LET bits == BytesBits(bs)
        nch == (Len(bits) + 4) \div 5
        bit(k) == IF k <= Len(bits) THEN bits[k] ELSE 0
        ch(j) == Base32HexChar(16 * bit(5 * j - 4) + 8 * bit(5 * j - 3) + 4 * bit(5 * j - 2)
                               + 2 * bit(5 * j - 1) + bit(5 * j))
        total == 8 * ((Len(bs) + 4) \div 5)
    IN [j \in 1..total |-> IF j <= nch THEN ch(j) ELSE Zero]

\* getOrderedStringFieldKey(i, fieldValue): reverse (descending), pad, armor
getOrderedStringFieldKey(i, fieldValue) ==
    LET desc == i.Order.Type = OrderTypeDesc
        runes == IF desc
                 THEN [k \in 1..Len(fieldValue) |-> MaxRune - fieldValue[k]]
                 ELSE fieldValue
        padded == IF Len(runes) < i.StringOrderPadLength
                  THEN runes \o Repeat(IF desc THEN MaxRune ELSE Space,
                                       i.StringOrderPadLength - Len(runes))
                  ELSE runes
        str == StringOfRunes(padded)
    IN IF desc /\ i.Base32Encode THEN Base32HexZeroPadded(Utf8Bytes(str)) ELSE str

\* whether the filter field and the order field of the index differ
OrderFieldDiffers(i) == i.FieldName # i.Order.FieldName /\ i.Order.FieldName # <<>>

\* the order part of a key: the encoded value of the order field, or a panic
OrderPart(i, v) ==
    CASE v.t = "string" ->
            [panic |-> FALSE,
             part |-> IF i.Order.Type # OrderTypeUnordered
                      THEN getOrderedStringFieldKey(i, v.s) ELSE v.s]
      [] v.t \in {"json.Number", "int64"} ->
            [panic |-> FALSE,
             part |-> IF i.Order.Type = OrderTypeDesc
                      THEN Fmt019dMaxInt64Minus(v.n) ELSE Fmt019d(v.n)]
      [] v.t = "float64" ->
            [panic |-> FALSE,
             part |-> IF i.Order.Type = OrderTypeDesc THEN StrMaxFloat64 ELSE FmtFloat64(v.n)]
      [] v.t = "int" ->
            [panic |-> FALSE,
             part |-> IF i.Order.Type = OrderTypeDesc
                      THEN Fmt019dMaxInt32Minus(v.n) ELSE Fmt019d(v.n)]
      [] v.t = "bool" -> [panic |-> FALSE, part |-> FmtV(v)]
      [] OTHER -> [panic |-> TRUE, part |-> <<>>]

\* indexToKey that never appends the identity to the key
indexToKeyNoId(d, i, id, entry, appendID) ==
    LET orderFieldValue == IF OrderFieldDiffers(i)
                           THEN Get(entry, i.Order.FieldName)
                           ELSE Get(entry, i.FieldName)
        head == d.namespace \o <<Colon>> \o indexPrefix(i)
        body(part) == IF i.Type = indexTypeEq
                      THEN (IF OrderFieldDiffers(i)
                            THEN <<Colon>> \o FmtV(Get(entry, i.FieldName)) ELSE <<>>)
                           \o <<Colon>> \o part
                      ELSE <<>>
        built(op) == [panic |-> i.Type = indexTypeEq /\ op.panic,
                      key |-> head \o body(op.part)]
    IN built(OrderPart(i, orderFieldValue))

\* indexToKey(d, i, id, entry, appendID): [panic, key]
indexToKey(d, i, id, entry, appendID) ==
    LET filterFieldValue == Get(entry, i.FieldName)
        orderFieldValue == IF OrderFieldDiffers(i)
                           THEN Get(entry, i.Order.FieldName)
                           ELSE Get(entry, i.FieldName)
        head == d.namespace \o <<Colon>> \o indexPrefix(i)
        body(part) == IF i.Type = indexTypeEq
                      THEN (IF OrderFieldDiffers(i)
                            THEN <<Colon>> \o FmtV(filterFieldValue) ELSE <<>>)
                           \o <<Colon>> \o part
                      ELSE <<>>
        tail == IF appendID THEN <<Colon>> \o FmtV(id) ELSE <<>>
        built(op) == [panic |-> i.Type = indexTypeEq /\ op.panic,
                      key |-> head \o body(op.part) \o tail]
    IN built(OrderPart(i, orderFieldValue))

\* queryToListKey(d, i, q): the key or prefix to scan for query q through index i
queryToListKey(d, i, q) ==
    IF q.Value = Nil
    THEN [panic |-> FALSE, key |-> d.namespace \o <<Colon>> \o indexPrefix(i)]
    ELSE IF OrderFieldDiffers(i)
    THEN [panic |-> FALSE,
          key |-> d.namespace \o <<Colon>> \o indexPrefix(i) \o <<Colon>> \o FmtV(q.Value)]
    ELSE indexToKey(d, i, Nil, (i.FieldName :> q.Value), FALSE)

(******************************* the store *********************************)
EmptyStore == [k \in {} |-> <<>>]

\* store.Write(&store.Record{Key: k, Value: v}): upsert
StoreWrite(st, k, v) == [x \in DOMAIN st \cup {k} |-> IF x = k THEN v ELSE st[x]]

\* store.Delete(k); deleting an absent key succeeds and changes nothing
StoreDelete(st, k) == [x \in DOMAIN st \ {k} |-> st[x]]

IsPrefix(p, k) == Len(p) <= Len(k) /\ \A j \in 1..Len(p) : k[j] = p[j]

\* a < b in the store's key order (lexicographic by code point)
LexLess(a, b) ==
    \E j \in 1..(Len(b)) :
        /\ \A x \in 1..(j - 1) : x <= Len(a) /\ a[x] = b[x]
        /\ (j > Len(a) \/ (j <= Len(a) /\ a[j] < b[j]))
        /\ j - 1 <= Len(a)

RECURSIVE SortKeys(_)
SortKeys(S) ==
    IF S = {} THEN <<>>
    ELSE LET m == CHOOSE x \in S : \A y \in S \ {x} : LexLess(x, y)
         IN <<m>> \o SortKeys(S \ {m})

\* store.Read(prefix, store.ReadPrefix()): the records under the prefix, in key order
StoreRead(st, prefix) ==
    LET keys == SortKeys({k \in DOMAIN st : IsPrefix(prefix, k)})
    IN [j \in 1..Len(keys) |-> [Key |-> keys[j], Value |-> st[keys[j]]]]

(***************************** the model struct ****************************)
\* NewModel(store, namespace, indexes, options): options.IdIndex, or the default
NewModel(ns, indexes, idIndex) ==
    [namespace |-> ns,
     indexes |-> indexes,
     options |-> [IdIndex |-> IF idIndex.Type = "" THEN defaultIndex ELSE idIndex]]

\* the zero Index{} of an absent options.IdIndex
ZeroIndex ==
    [FieldName |-> <<>>, Type |-> "", Order |-> [FieldName |-> <<>>, Type |-> ""],
     Unique |-> FALSE, StringOrderPadLength |-> 0, Base32Encode |-> FALSE]

\* append(d.indexes, d.options.IdIndex)
AllIndexes(d) == Append(d.indexes, d.options.IdIndex)

IdField(d) == d.options.IdIndex.FieldName

(******************************* errors ************************************)
ErrNone == "ok"
ErrorNotFound == "not found"
ErrorMultipleRecordsFound == "multiple records found"
ErrNoIndex == "does not match any indexes"
ErrUniqueViolated == "Unique index violated"
ErrUniqueMultiple == "Multiple entries found for unique index"
ErrDeleteQuery == "Delete query does not match default index"
ErrNoEntry == "No entry found to delete"
ErrStore == "store error"
Panic == "panic"

(***************************** Read and List *******************************)
\* MatchingIndex that takes the last index matching the query
MatchingIndexLast(d, q) ==
    LET all == AllIndexes(d)
        hits == {k \in 1..Len(all) : indexMatchesQuery(all[k], q)}
    IN IF hits = {} THEN 0 ELSE CHOOSE k \in hits : \A x \in hits : k >= x

\* the position of the first index matching the query, 0 when none does
MatchingIndex(d, q) ==
    LET all == AllIndexes(d)
        hits == {k \in 1..Len(all) : indexMatchesQuery(all[k], q)}
    IN IF hits = {} THEN 0 ELSE CHOOSE k \in hits : \A x \in hits : k <= x

\* the store scan of Read and List: [err, recs]
Scan(d, st, q) ==
    LET k == MatchingIndex(d, q)
        read(key) == IF key.panic THEN [err |-> Panic, recs |-> <<>>]
                     ELSE [err |-> ErrNone, recs |-> StoreRead(st, key.key)]
    IN IF k = 0 THEN [err |-> ErrNoIndex, recs |-> <<>>]
       ELSE read(queryToListKey(d, AllIndexes(d)[k], q))

\* List(query, &result): every record of the scan, in the scan's order
List(d, st, q) ==
    LET values(r) == [err |-> r.err, out |-> [j \in 1..Len(r.recs) |-> r.recs[j].Value]]
    IN values(Scan(d, st, q))

\* Read that takes the first record when the scan yields several
ReadFirstOfMany(d, st, q) ==
    LET one(r) ==
            IF r.err # ErrNone THEN [err |-> r.err, out |-> <<>>]
            ELSE IF Len(r.recs) = 0 THEN [err |-> ErrorNotFound, out |-> <<>>]
            ELSE [err |-> ErrNone, out |-> <<r.recs[1].Value>>]
    IN one(Scan(d, st, q))

\* Read(query, &result): the one record of the scan
Read(d, st, q) ==
    LET one(r) ==
            IF r.err # ErrNone THEN [err |-> r.err, out |-> <<>>]
            ELSE IF Len(r.recs) = 0 THEN [err |-> ErrorNotFound, out |-> <<>>]
            ELSE IF Len(r.recs) > 1 THEN [err |-> ErrorMultipleRecordsFound, out |-> <<>>]
            ELSE [err |-> ErrNone, out |-> <<r.recs[1].Value>>]
    IN one(Scan(d, st, q))

(********************************* Save ************************************)
\* the previous version of the record: the first entry List returns for the
\* identity query, unmarshalled; <<>> is the nil map.  [err, old]
OldEntry(d, st, m) ==
    LET first(r) ==
            IF r.err # ErrNone THEN [err |-> r.err, old |-> <<>>]
            ELSE [err |-> ErrNone,
                  old |-> IF Len(r.out) > 0 THEN <<Unmarshal(r.out[1])>> ELSE <<>>]
    IN first(List(d, st, ToQuery(d.options.IdIndex, Get(m, IdField(d)))))

\* UniqueCheck without the comparison of the identities
UniqueCheckNoIdCompare(d, st, m, index) ==
    LET check(r) ==
            IF r.err # ErrNone THEN r.err
            ELSE IF Len(r.out) > 1 THEN ErrUniqueMultiple
            ELSE ErrNone
    IN IF ~index.Unique THEN ErrNone
       ELSE check(List(d, st, ToQuery(index, Get(m, index.FieldName))))

\* the uniqueness check of one declared index: the error, or ErrNone
UniqueCheck(d, st, m, index) ==
    LET check(r) ==
            IF r.err # ErrNone THEN r.err
            ELSE IF Len(r.out) = 0 THEN ErrNone
            ELSE IF Len(r.out) > 1 THEN ErrUniqueMultiple
            ELSE IF Get(Unmarshal(r.out[1]), IdField(d)) # Get(m, IdField(d))
                 THEN ErrUniqueViolated
            ELSE ErrNone
    IN IF ~index.Unique THEN ErrNone
       ELSE check(List(d, st, ToQuery(index, Get(m, index.FieldName))))

RECURSIVE UniqueChecksFrom(_, _, _, _)
\* the uniqueness checks of the declared indexes k.., stopping at the first error
UniqueChecksFrom(d, st, m, k) ==
    LET next(e) == IF e # ErrNone THEN e ELSE UniqueChecksFrom(d, st, m, k + 1)
    IN IF k > Len(d.indexes) THEN ErrNone
       ELSE next(UniqueCheck(d, st, m, d.indexes[k]))

\* whether the loop deletes the key built from the previous version
StaleKeyDeleted(index, old, m) ==
    /\ ~indexesMatch(defaultIndex, index)
    /\ old # <<>>
    /\ Get(old[1], index.FieldName) # Get(m, index.FieldName)

\* IndexOps that builds the key it writes from the previous version when there is one
IndexOpsKeyFromOld(d, k, m, js, old) ==
    LET index == AllIndexes(d)[k]
        id == Get(m, IdField(d))
        panic == <<[op |-> "Panic", key |-> <<>>, value |-> js, ix |-> k]>>
        delete(ko) == IF ko.panic THEN panic
                      ELSE <<[op |-> "Delete", key |-> ko.key, value |-> js, ix |-> k]>>
        write(kn) == IF kn.panic THEN panic
                     ELSE <<[op |-> "Write", key |-> kn.key, value |-> js, ix |-> k]>>
        pass(del, wr) == IF del = panic THEN del ELSE del \o wr
    IN pass(IF StaleKeyDeleted(index, old, m)
            THEN delete(indexToKey(d, index, id, old[1], TRUE)) ELSE <<>>,
            write(indexToKey(d, index, id, IF old # <<>> THEN old[1] ELSE m, TRUE)))

\* the store operations of pass k of the loop over append(indexes, IdIndex):
\* the stale key's Delete when due, then the Write; a panic ends the pass
IndexOps(d, k, m, js, old) ==
    LET index == AllIndexes(d)[k]
        id == Get(m, IdField(d))
        panic == <<[op |-> "Panic", key |-> <<>>, value |-> js, ix |-> k]>>
        delete(ko) == IF ko.panic THEN panic
                      ELSE <<[op |-> "Delete", key |-> ko.key, value |-> js, ix |-> k]>>
        write(kn) == IF kn.panic THEN panic
                     ELSE <<[op |-> "Write", key |-> kn.key, value |-> js, ix |-> k]>>
        pass(del, wr) == IF del = panic THEN del ELSE del \o wr
    IN pass(IF StaleKeyDeleted(index, old, m)
            THEN delete(indexToKey(d, index, id, old[1], TRUE)) ELSE <<>>,
            write(indexToKey(d, index, id, m, TRUE)))

RECURSIVE SaveOpsFrom(_, _, _, _, _)
\* the store operations of the loop from index k on, up to the first panic
SaveOpsFrom(d, m, js, old, k) ==
    LET rest(ops) == IF ops[Len(ops)].op = "Panic" THEN ops
                     ELSE ops \o SaveOpsFrom(d, m, js, old, k + 1)
    IN IF k > Len(AllIndexes(d)) THEN <<>>
       ELSE rest(IndexOps(d, k, m, js, old))

SaveOps(d, m, js, old) == SaveOpsFrom(d, m, js, old, 1)

\* one store operation applied
ApplyOp(st, o) ==
    IF o.op = "Write" THEN StoreWrite(st, o.key, o.value)
    ELSE IF o.op = "Delete" THEN StoreDelete(st, o.key)
    ELSE st

RECURSIVE ApplyOps(_, _, _)
\* the first n operations applied in order
ApplyOps(st, ops, n) ==
    IF n = 0 THEN st ELSE ApplyOp(ApplyOps(st, ops, n - 1), ops[n])

\* how the loop ends once every operation succeeded
LoopResult(ops) == IF ops # <<>> /\ ops[Len(ops)].op = "Panic" THEN Panic ELSE ErrNone

\* Save with the uniqueness checks made after the writes
SaveChecksAfterWrites(d, st, instance) ==
    LET js == Marshal(instance)
        m == DecodeUseNumber(js)
        loop(u, ops) == [result |-> IF u # ErrNone THEN u ELSE LoopResult(ops),
                         store |-> ApplyOps(st, ops, Len(ops))]
        found(o) == IF o.err # ErrNone THEN [result |-> o.err, store |-> st]
                    ELSE loop(UniqueChecksFrom(d, st, m, 1), SaveOps(d, m, js, o.old))
    IN found(OldEntry(d, st, m))

\* Save(instance) with every store call succeeding: [result, store]
Save(d, st, instance) ==
    LET js == Marshal(instance)
        m == DecodeUseNumber(js)
        loop(ops) == [result |-> LoopResult(ops), store |-> ApplyOps(st, ops, Len(ops))]
        checked(o, u) == IF u # ErrNone THEN [result |-> u, store |-> st]
                         ELSE loop(SaveOps(d, m, js, o.old))
        found(o) == IF o.err # ErrNone THEN [result |-> o.err, store |-> st]
                    ELSE checked(o, UniqueChecksFrom(d, st, m, 1))
    IN found(OldEntry(d, st, m))

\* the operations of the loop of Save(instance) on store st, <<>> when the
\* call returns before the loop
LoopOps(d, st, instance) ==
    LET js == Marshal(instance)
        m == DecodeUseNumber(js)
        found(o) == IF o.err # ErrNone \/ UniqueChecksFrom(d, st, m, 1) # ErrNone THEN <<>>
                    ELSE SaveOps(d, m, js, o.old)
    IN found(OldEntry(d, st, m))

\* Save that swallows the store's error: the failed operation is skipped, the
\* loop carries on, and the error is returned at the end
SaveFailingAtContinues(d, st, instance, n) ==
    LET skip(ops) == [j \in 1..(Len(ops) - 1) |-> IF j < n THEN ops[j] ELSE ops[j + 1]]
        apply(rest) == [result |-> ErrStore, store |-> ApplyOps(st, rest, Len(rest))]
    IN apply(skip(LoopOps(d, st, instance)))

\* Save(instance) when the n-th store call of the loop returns an error:
\* the error is returned at once, after the n-1 calls that succeeded
SaveFailingAt(d, st, instance, n) ==
    [result |-> ErrStore, store |-> ApplyOps(st, LoopOps(d, st, instance), n - 1)]

(******************************** Delete ***********************************)
\* Delete(query): [result, store]
Delete(d, st, q) ==
    LET remove(key) == IF key.panic THEN [result |-> Panic, store |-> st]
                       ELSE [result |-> ErrNone, store |-> StoreDelete(st, key.key)]
        first(r) ==
            IF r.err # ErrNone THEN [result |-> r.err, store |-> st]
            ELSE IF Len(r.out) = 0 THEN [result |-> ErrNoEntry, store |-> st]
            ELSE LET id == Get(Unmarshal(r.out[1]), IdField(d))
                 IN remove(indexToKey(d, defaultIndex, id, (IdField(d) :> id), TRUE))
    IN IF ~indexMatchesQuery(defaultIndex, q) THEN [result |-> ErrDeleteQuery, store |-> st]
       ELSE first(List(d, st, q))

\* the part of Delete(query) after the check of the query's shape and up to
\* its store Delete: the error it returns, or the store call it goes on to make
DeleteOps(d, st, q) ==
    LET remove(key) ==
            IF key.panic THEN [result |-> Panic, ops |-> <<>>]
            ELSE [result |-> ErrNone,
                  ops |-> <<[op |-> "Delete", key |-> key.key, value |-> <<>>, ix |-> 0]>>]
        first(r) ==
            IF r.err # ErrNone THEN [result |-> r.err, ops |-> <<>>]
            ELSE IF Len(r.out) = 0 THEN [result |-> ErrNoEntry, ops |-> <<>>]
            ELSE LET id == Get(Unmarshal(r.out[1]), IdField(d))
                 IN remove(indexToKey(d, defaultIndex, id, (IdField(d) :> id), TRUE))
    IN first(List(d, st, q))

(********************* the earlier variant: db *****************************)
\* the JSON key "ID"
FID == <<73, 68>>

ErrMissingIdentity == "ID of objects must marshal to JSON key 'ID' or 'id'"
ErrNoIndexes == "No indexes found"

\* ByEq(fieldName): Index{FieldName, Type: "eq"}, Ordering left false
ByEq(fieldName) == [FieldName |-> fieldName, Type |-> indexTypeEq, Ordering |-> FALSE]

\* Eq(fieldName, value)
Eq(fieldName, value) ==
    [Type |-> queryTypeEq, FieldName |-> fieldName, Value |-> value, Ordering |-> FALSE]

\* Query.Ord(desc)
Ord(q, desc) == [q EXCEPT !.Ordering = desc]

\* NewDB(store, entity, indexes)
NewDB(indexes) == [indexes |-> indexes]

\* db's indexMatchesQuery(i, q): the type and the ordering, not the field name
dbIndexMatchesQuery(i, q) == i.Type = q.Type /\ i.Ordering = q.Ordering

\* db's queryToListKey(q): "by%v:%v"
dbQueryToListKey(q) == StrBy \o q.FieldName \o <<Colon>> \o FmtV(q.Value)

\* indexToSaveKey(i, id, m): "by%v:%v:%v"
indexToSaveKey(i, id, m) ==
    StrBy \o i.FieldName \o <<Colon>> \o FmtV(Get(m, i.FieldName)) \o <<Colon>> \o id

\* the identity db.Save finds: m["ID"] when a non-empty string, else m["id"]
\* when a non-empty string; [ok, id]
DbIdentity(m) ==
    LET usable(v) == v.t = "string" /\ Len(v.s) > 0
    IN IF usable(Get(m, FID)) THEN [ok |-> TRUE, id |-> Get(m, FID).s]
       ELSE IF usable(Get(m, FId)) THEN [ok |-> TRUE, id |-> Get(m, FId).s]
       ELSE [ok |-> FALSE, id |-> <<>>]

\* db.Save(instance) up to its store calls: the error of the identity check,
\* or the Writes in order: the identity key, then one key per index
DbSaveOps(db, instance) ==
    LET js == Marshal(instance)
        m == Unmarshal(js)
        writes(id) ==
            <<[op |-> "Write", key |-> id, value |-> js, ix |-> 0]>>
                \o [k \in 1..Len(db.indexes) |->
                       [op |-> "Write", key |-> indexToSaveKey(db.indexes[k], id, m),
                        value |-> js, ix |-> k]]
        checked(i) == IF ~i.ok THEN [result |-> ErrMissingIdentity, ops |-> <<>>]
                      ELSE [result |-> ErrNone, ops |-> writes(i.id)]
    IN checked(DbIdentity(m))

\* db.Save(instance) with every store call succeeding: [result, store]
DbSave(db, st, instance) ==
    LET saved(r) == [result |-> r.result, store |-> ApplyOps(st, r.ops, Len(r.ops))]
    IN saved(DbSaveOps(db, instance))

\* db.List(query, &result): [err, out]
DbList(db, st, q) ==
    LET hits == {k \in 1..Len(db.indexes) : dbIndexMatchesQuery(db.indexes[k], q)}
        values(recs) == [err |-> ErrNone, out |-> [j \in 1..Len(recs) |-> recs[j].Value]]
    IN IF Len(db.indexes) = 0 THEN [err |-> ErrNoIndexes, out |-> <<>>]
       ELSE IF hits = {} THEN [err |-> ErrNoIndex, out |-> <<>>]
       ELSE values(StoreRead(st, dbQueryToListKey(q)))

(************************* the models and their inputs *********************)
\* bounds of the exploration
MaxCalls == 3

\* the identities "1", "10", "2"; the e-mails "a", "b"; the ages 5, 30
Ids == {<<49>>, <<49, 48>>, <<50>>}
Emails == {<<97>>, <<98>>}
Ages == {5, 30}

\* a unique string index on email, an integer index on age, the default id index
EmailIndex == [ByEquality(FEmail) EXCEPT !.Unique = TRUE]
AgeIndex == ByEquality(FAge)
Users == NewModel(StrU, <<EmailIndex, AgeIndex>>, ZeroIndex)

\* a record as the caller passes it: a struct with a string id, a string and an int
User(id, email, age) ==
    (FId :> GoString(id)) @@ (FEmail :> GoString(email)) @@ (FAge :> GoInt(age))

Instances == {User(id, e, a) : id \in Ids, e \in Emails, a \in Ages}

\* the identity query of a record with identity id
IdQuery(d, id) == ToQuery(d.options.IdIndex, GoString(id))

IdQueries == {IdQuery(Users, id) : id \in Ids}

\* Equals("id", "1") asks for ascending order, which no index on id has
UnmatchedQuery == Equals(FId, GoString(<<49>>))

ReadQueries == IdQueries \cup {UnmatchedQuery}

ListQueries ==
    {ToQuery(EmailIndex, GoString(e)) : e \in Emails}
        \cup {ToQuery(AgeIndex, GoInt(a)) : a \in Ages}
        \cup {ToQuery(EmailIndex, Nil), ToQuery(AgeIndex, Nil)}

DeleteQueries == IdQueries \cup {ToQuery(EmailIndex, GoString(<<97>>))}

NoCall ==
    [op |-> "none", arg |-> <<>>, result |-> ErrNone, out |-> <<>>, pre |-> EmptyStore,
     fail |-> 0]

NoRecords == [id \in {} |-> <<>>]

(******************************* the callers *******************************)
\* The code holds no lock, so calls may overlap.  A behaviour is a number of
\* Save and Delete calls that run alone, each with no store call of another
\* call between its own and so one step (SaveCall, DeleteCall), followed by
\* the calls of the two callers in Procs, which advance one store call at a
\* time (Begin, Lookup, Unique, DeleteLookup, StoreOp) in any interleaving.
\* Read and List make one store call and are one step (ReadCall, ListCall),
\* taken at any time, between two store calls of a call in progress included.
Procs == {1, 2}

IdleProc ==
    [pc |-> "idle", op |-> "none", instance |-> <<>>, old |-> <<>>, u |-> 0, ops |-> <<>>,
     done |-> 0, result |-> ErrNone, mutAtLookup |-> -1, mutAtCheck |-> -1]

\* neither of the two callers has made a call: every call so far ran alone
Sequential == \A p \in Procs : procs[p].pc = "idle"

Init ==
    /\ model = Users
    /\ store = EmptyStore
    /\ last = NoCall
    /\ calls = 0
    /\ live = NoRecords
    /\ deleted = FALSE
    /\ procs = [p \in Procs |-> IdleProc]

(************************ calls that run alone *****************************)
\* the history after a call: a successful Save makes its record the live one of
\* its identity, a successful Delete ends the record of the identity asked for
LiveAfterSave(lv, instance, result) ==
    IF result = ErrNone
    THEN [id \in DOMAIN lv \cup {Get(instance, FId).s} |->
             IF id = Get(instance, FId).s THEN Marshal(instance) ELSE lv[id]]
    ELSE lv

LiveAfterDelete(lv, q, result) ==
    IF result = ErrNone THEN [id \in DOMAIN lv \ {q.Value.s} |-> lv[id]] ELSE lv

SaveCall(instance) ==
    /\ calls < MaxCalls
    /\ Sequential
    /\ LET returns(r) ==
               /\ store' = r.store
               /\ last' = [op |-> "Save", arg |-> instance, result |-> r.result,
                           out |-> <<>>, pre |-> store, fail |-> 0]
               /\ live' = LiveAfterSave(live, instance, r.result)
       IN returns(Save(model, store, instance))
    /\ calls' = calls + 1
    /\ UNCHANGED <<model, deleted, procs>>

DeleteCall(q) ==
    /\ calls < MaxCalls
    /\ Sequential
    /\ LET returns(r) ==
               /\ store' = r.store
               /\ last' = [op |-> "Delete", arg |-> q, result |-> r.result,
                           out |-> <<>>, pre |-> store, fail |-> 0]
               /\ live' = LiveAfterDelete(live, q, r.result)
       IN returns(Delete(model, store, q))
    /\ calls' = calls + 1
    /\ deleted' = TRUE
    /\ UNCHANGED <<model, procs>>

ReadCall(q) ==
    /\ LET returns(r) ==
               last' = [op |-> "Read", arg |-> q, result |-> r.err, out |-> r.out,
                        pre |-> store, fail |-> 0]
       IN returns(Read(model, store, q))
    /\ UNCHANGED <<model, store, calls, live, deleted, procs>>

ListCall(q) ==
    /\ LET returns(r) ==
               last' = [op |-> "List", arg |-> q, result |-> r.err, out |-> r.out,
                        pre |-> store, fail |-> 0]
       IN returns(List(model, store, q))
    /\ UNCHANGED <<model, store, calls, live, deleted, procs>>

(************************ calls that may overlap ***************************)
\* the store calls that changed the store so far, of the two callers
Mutations == procs[1].done + procs[2].done

\* the position of the first Unique declared index at or after k, 0 when none
NextUnique(d, k) ==
    LET S == {j \in k..Len(d.indexes) : d.indexes[j].Unique}
    IN IF S = {} THEN 0 ELSE CHOOSE j \in S : \A x \in S : j <= x

\* the caller's state on entering the loop
EnterLoop(pr) ==
    [pr EXCEPT !.pc = "loop",
               !.ops = SaveOps(model, DecodeUseNumber(Marshal(pr.instance)),
                               Marshal(pr.instance), pr.old),
               !.mutAtCheck = Mutations]

Returned(pr, result) == [pr EXCEPT !.pc = "returned", !.result = result]

\* Save(instance) is called: the record is marshalled and decoded
Begin(p, instance) ==
    /\ calls < MaxCalls
    /\ procs[p].pc = "idle"
    /\ procs' = [procs EXCEPT ![p] =
           [@ EXCEPT !.pc = "lookup", !.op = "Save", !.instance = instance]]
    /\ calls' = calls + 1
    /\ last' = NoCall
    /\ UNCHANGED <<model, store, live, deleted>>

\* d.List(idQuery, &oldEntryList): one store Read
Lookup(p) ==
    /\ procs[p].pc = "lookup"
    /\ LET pr == procs[p]
           found(o) ==
               IF o.err # ErrNone THEN Returned(pr, o.err)
               ELSE IF NextUnique(model, 1) = 0
                    THEN EnterLoop([pr EXCEPT !.old = o.old, !.mutAtLookup = Mutations])
               ELSE [pr EXCEPT !.old = o.old, !.mutAtLookup = Mutations,
                               !.pc = "unique", !.u = NextUnique(model, 1)]
       IN procs' = [procs EXCEPT ![p] =
              found(OldEntry(model, store, DecodeUseNumber(Marshal(pr.instance))))]
    /\ last' = NoCall
    /\ UNCHANGED <<model, store, calls, live, deleted>>

\* the uniqueness lookup of the next Unique index: one store Read
Unique(p) ==
    /\ procs[p].pc = "unique"
    /\ LET pr == procs[p]
           checked(e) ==
               IF e # ErrNone THEN Returned(pr, e)
               ELSE IF NextUnique(model, pr.u + 1) = 0 THEN EnterLoop(pr)
               ELSE [pr EXCEPT !.u = NextUnique(model, pr.u + 1)]
       IN procs' = [procs EXCEPT ![p] =
              checked(UniqueCheck(model, store, DecodeUseNumber(Marshal(pr.instance)),
                                  model.indexes[pr.u]))]
    /\ last' = NoCall
    /\ UNCHANGED <<model, store, calls, live, deleted>>

\* Delete(query) is called: a query that is not of the default index's shape is
\* refused before any store call
DeleteBegin(p, q) ==
    /\ calls < MaxCalls
    /\ procs[p].pc = "idle"
    /\ procs' = [procs EXCEPT ![p] =
           IF ~indexMatchesQuery(defaultIndex, q)
           THEN Returned([@ EXCEPT !.op = "Delete", !.instance = q], ErrDeleteQuery)
           ELSE [@ EXCEPT !.pc = "dlookup", !.op = "Delete", !.instance = q]]
    /\ calls' = calls + 1
    /\ last' = NoCall
    /\ UNCHANGED <<model, store, live, deleted>>

\* d.List(query, &results) of Delete: one store Read; the key to delete is
\* built from the first result
DeleteLookup(p) ==
    /\ procs[p].pc = "dlookup"
    /\ LET pr == procs[p]
           found(r) ==
               IF r.result # ErrNone THEN Returned(pr, r.result)
               ELSE [pr EXCEPT !.pc = "loop", !.ops = r.ops, !.mutAtLookup = Mutations]
       IN procs' = [procs EXCEPT ![p] = found(DeleteOps(model, store, pr.instance))]
    /\ last' = NoCall
    /\ UNCHANGED <<model, store, calls, live, deleted>>

\* the next store call of the call: a Delete or a Write (or the panic of
\* building its key); after the last one the call returns nil
StoreOp(p) ==
    /\ procs[p].pc = "loop"
    /\ LET pr == procs[p]
           o == pr.ops[pr.done + 1]
       IN IF o.op = "Panic"
          THEN /\ procs' = [procs EXCEPT ![p] = Returned(pr, Panic)]
               /\ store' = store
          ELSE /\ store' = ApplyOp(store, o)
               /\ procs' = [procs EXCEPT ![p] =
                      IF pr.done + 1 = Len(pr.ops)
                      THEN Returned([pr EXCEPT !.done = @ + 1], ErrNone)
                      ELSE [pr EXCEPT !.done = @ + 1]]
    /\ last' = NoCall
    /\ UNCHANGED <<model, calls, live, deleted>>

\* the next store call of the call returns an error: the call returns it
StoreOpFails(p) ==
    /\ procs[p].pc = "loop"
    /\ procs[p].ops[procs[p].done + 1].op # "Panic"
    /\ procs' = [procs EXCEPT ![p] = Returned(@, ErrStore)]
    /\ last' = NoCall
    /\ UNCHANGED <<model, store, calls, live, deleted>>

\* the records and the query of the calls that may overlap: identities "1" and
\* "2", age 5; Delete of identity "1"
ConcInstances == {User(id, e, 5) : id \in {<<49>>, <<50>>}, e \in Emails}

ConcDeletes == {IdQuery(Users, <<49>>)}

\* two records of different identity with the same e-mail and age
RacingInstances == {User(id, <<97>>, 5) : id \in {<<49>>, <<50>>}}

\* the queries of the Read and List calls made once a call of the two callers
\* has begun
ConcReadQueries == {IdQuery(Users, <<49>>)}

ConcListQueries == {ToQuery(AgeIndex, GoInt(5)), ToQuery(EmailIndex, GoString(<<97>>))}

\* the store calls of the calls in progress
StoreCalls(p) ==
    \/ Lookup(p)
    \/ Unique(p)
    \/ DeleteLookup(p)
    \/ StoreOp(p)

Next ==
    \/ \E instance \in Instances : SaveCall(instance)
    \/ \E q \in DeleteQueries : DeleteCall(q)
    \/ \E q \in (IF Sequential THEN ReadQueries ELSE ConcReadQueries) : ReadCall(q)
    \/ \E q \in (IF Sequential THEN ListQueries ELSE ConcListQueries) : ListCall(q)
    \/ \E p \in Procs : \E instance \in RacingInstances : Begin(p, instance)
    \/ \E p \in Procs : \E q \in ConcDeletes : DeleteBegin(p, q)
    \/ \E p \in Procs : StoreCalls(p)

Spec == Init /\ [][Next]_vars

(******************* records without a usable identity *********************)
\* a record whose struct has no id field at all
UserNoId(email, age) == (FEmail :> GoString(email)) @@ (FAge :> GoInt(age))

NoIdInstances ==
    {UserNoId(e, a) : e \in Emails, a \in Ages} \cup {User(<<>>, e, a) : e \in Emails, a \in Ages}

\* the earlier variant: NewDB(store, entity, Indexes(ByEq("email"), ByEq("age")))
Db == NewDB(<<ByEq(FEmail), ByEq(FAge)>>)

\* the records saved through the earlier variant: with the key "id", with the
\* key "ID", with an empty id and with none
DbInstances ==
    {User(id, <<97>>, a) : id \in {<<49>>, <<>>}, a \in Ages}
        \cup {(FID :> GoString(<<50>>)) @@ UserNoId(<<97>>, 5), UserNoId(<<97>>, 5)}

DbQueries == {Eq(FEmail, GoString(<<97>>)), Eq(FAge, GoInt(5)), Ord(Eq(FAge, GoInt(5)), TRUE)}

\* db.Save(instance), run alone
DbSaveCall(instance) ==
    /\ calls < MaxCalls
    /\ Sequential
    /\ LET returns(r) ==
               /\ store' = r.store
               /\ last' = [op |-> "DbSave", arg |-> instance, result |-> r.result,
                           out |-> <<>>, pre |-> store, fail |-> 0]
       IN returns(DbSave(Db, store, instance))
    /\ calls' = calls + 1
    /\ UNCHANGED <<model, live, deleted, procs>>

\* db.List(query, &result): one store Read
DbListCall(q) ==
    /\ LET returns(r) ==
               last' = [op |-> "DbList", arg |-> q, result |-> r.err, out |-> r.out,
                        pre |-> store, fail |-> 0]
       IN returns(DbList(Db, store, q))
    /\ UNCHANGED <<model, store, calls, live, deleted, procs>>

\* db.Save(instance) is called: the identity check, then one store Write at a time
DbBegin(p, instance) ==
    /\ calls < MaxCalls
    /\ procs[p].pc = "idle"
    /\ LET pr == [procs[p] EXCEPT !.op = "DbSave", !.instance = instance]
           begun(r) == IF r.result # ErrNone THEN Returned(pr, r.result)
                       ELSE [pr EXCEPT !.pc = "loop", !.ops = r.ops]
       IN procs' = [procs EXCEPT ![p] = begun(DbSaveOps(Db, instance))]
    /\ calls' = calls + 1
    /\ last' = NoCall
    /\ UNCHANGED <<model, store, live, deleted>>

NextAnyId ==
    \/ \E instance \in Instances \cup NoIdInstances : SaveCall(instance)
    \/ \E q \in (IF Sequential THEN ListQueries ELSE ConcListQueries) : ListCall(q)
    \/ \E instance \in DbInstances : DbSaveCall(instance)
    \/ \E q \in DbQueries : DbListCall(q)
    \/ \E p \in Procs : \E instance \in RacingInstances : Begin(p, instance)
    \/ \E p \in Procs : \E instance \in DbInstances : DbBegin(p, instance)
    \/ \E p \in Procs : \E q \in ConcDeletes : DeleteBegin(p, q)
    \/ \E p \in Procs : StoreCalls(p)
    \/ \E p \in Procs : StoreOpFails(p)

SpecAnyId == Init /\ [][NextAnyId]_vars

(************************* store calls that fail ***************************)
\* the most store calls one Save makes in its loop: a Delete and a Write per index
MaxLoopOps == 2 * Len(AllIndexes(Users))

\* Save(instance) whose n-th store call in the loop returns an error
SaveCallFailing(instance, n) ==
    /\ calls < MaxCalls
    /\ Sequential
    /\ LET reached(ops) == n <= Len(ops) /\ ops[n].op # "Panic"
           returns(r) ==
               /\ store' = r.store
               /\ last' = [op |-> "Save", arg |-> instance, result |-> r.result,
                           out |-> <<>>, pre |-> store, fail |-> n]
               /\ live' = LiveAfterSave(live, instance, r.result)
       IN /\ reached(LoopOps(model, store, instance))
          /\ returns(SaveFailingAt(model, store, instance, n))
    /\ calls' = calls + 1
    /\ UNCHANGED <<model, deleted, procs>>

\* the records saved by the calls that run alone: identities "1" and "2"
FailInstances == {User(id, e, a) : id \in {<<49>>, <<50>>}, e \in Emails, a \in Ages}

NextFail ==
    \/ \E instance \in FailInstances : SaveCall(instance)
    \/ \E instance \in FailInstances : \E n \in 1..MaxLoopOps : SaveCallFailing(instance, n)
    \/ \E p \in Procs : \E instance \in RacingInstances : Begin(p, instance)
    \/ \E p \in Procs : Lookup(p)
    \/ \E p \in Procs : Unique(p)
    \/ \E p \in Procs : StoreOp(p)
    \/ \E p \in Procs : StoreOpFails(p)

SpecFail == Init /\ [][NextFail]_vars

(************************* only overlapping calls **************************)
\* The two callers each make one call, on a store that may hold a record.
\* the record the store may hold before the calls: identity "1", e-mail "c", age 5
Seed == User(<<49>>, <<99>>, 5)

InitConc ==
    /\ model = Users
    /\ store \in {EmptyStore, Save(Users, EmptyStore, Seed).store}
    /\ last = NoCall
    /\ calls = 0
    /\ live = NoRecords
    /\ deleted = FALSE
    /\ procs = [p \in Procs |-> IdleProc]

NextConc ==
    \/ \E p \in Procs : \E instance \in ConcInstances : Begin(p, instance)
    \/ \E p \in Procs : \E q \in ConcDeletes : DeleteBegin(p, q)
    \/ \E p \in Procs : StoreCalls(p)
    \/ \E q \in ReadQueries : ReadCall(q)
    \/ \E q \in ListQueries : ListCall(q)

SpecConc == InitConc /\ [][NextConc]_vars

(********************* models with other kinds of index ********************)
\* Index literals as callers write them, from ByEquality
AgeDescIndex == [ByEquality(FAge) EXCEPT !.Order.Type = OrderTypeDesc]
PadIndex == [ByEquality(FEmail) EXCEPT !.StringOrderPadLength = ShortPadLength]
EmailByAgeIndex == [ByEquality(FEmail) EXCEPT !.Order.FieldName = FAge]

\* an ascending integer index; a descending integer index; a string index with a
\* short pad length; a unique string index with the default pad length; an index
\* filtered by e-mail and ordered by age; two indexes a query on e-mail matches
AscInts == NewModel(StrU, <<AgeIndex>>, ZeroIndex)
DescInts == NewModel(StrU, <<AgeDescIndex>>, ZeroIndex)
Padded == NewModel(StrU, <<PadIndex>>, ZeroIndex)
UniqueEmails == NewModel(StrU, <<EmailIndex>>, ZeroIndex)
FilterOrder == NewModel(StrU, <<EmailByAgeIndex>>, ZeroIndex)
TwoMatching == NewModel(StrU, <<ByEquality(FEmail), PadIndex>>, ZeroIndex)

Models == {Users, AscInts, DescInts, Padded, UniqueEmails, FilterOrder, TwoMatching}

\* the identities "1", "2" and "1:2"
Id1 == <<49>>
Id2 == <<50>>
Id1Colon2 == <<49, Colon, 50>>

\* the strings "a", "b", "ab", "ab:1", "a" followed by the unit separator (0x1F),
\* sixteen "a", and sixteen "a" followed by "b"
StrA == <<97>>
StrB == <<98>>
StrAB == <<97, 98>>
StrABColon1 == <<97, 98, Colon, 49>>
StrAUnitSep == <<97, UnitSep>>
StrLong == Repeat(97, DefaultPadLength)
StrLonger == Repeat(97, DefaultPadLength) \o <<98>>

\* a record whose e-mail the caller left nil (a nil pointer field: JSON null)
UserNullEmail(id, age) == (FId :> GoString(id)) @@ (FEmail :> Nil) @@ (FAge :> GoInt(age))

\* a record whose struct has no age field
UserNoAge(id, email) == (FId :> GoString(id)) @@ (FEmail :> GoString(email))

\* the records saved to each model
InstancesOf(d) ==
    CASE d = Users ->
            {UserNullEmail(Id1, 5), UserNoAge(Id1, StrA), User(Id1, StrA, 5), User(Id2, StrB, 5)}
      [] d = AscInts ->
            {User(id, StrA, a) : id \in {Id1, Id2}, a \in {0 - 30, 0 - 5, 5, 30}}
      [] d = DescInts ->
            {User(id, StrA, a) : id \in {Id1, Id2}, a \in {0, 5, 30, MaxInt32}}
      [] d = Padded ->
            {User(id, e, 5) : id \in {Id2, Id1Colon2}, e \in {StrA, StrAUnitSep, StrAB, StrABColon1}}
      [] d = UniqueEmails ->
            {User(id, e, 5) : id \in {Id1, Id2}, e \in {StrA, StrLong, StrLonger}}
      [] d = FilterOrder ->
            {User(id, e, a) : id \in {Id1, Id2}, e \in {StrA, StrB}, a \in Ages}
      [] OTHER ->
            {User(id, e, 5) : id \in {Id1, Id2}, e \in {StrA, StrB}}

\* the queries made on each model: each declared index with no value, the first
\* declared index with the value "a" of its field, and queries no index matches
NoValueQueries(d) == {ToQuery(d.indexes[j], Nil) : j \in 1..Len(d.indexes)}

ValueQueries(d) ==
    IF d.indexes[1].FieldName = FEmail
    THEN {ToQuery(d.indexes[1], GoString(StrA))}
    ELSE {ToQuery(d.indexes[1], GoInt(5))}

UnmatchedQueries(d) ==
    {UnmatchedQuery, [ToQuery(d.indexes[1], Nil) EXCEPT !.Order.Type = OrderTypeUnordered]}

ListQueriesOf(d) == NoValueQueries(d) \cup ValueQueries(d) \cup UnmatchedQueries(d)

IdQueriesOf(d) == {IdQuery(d, id) : id \in {Id1, Id2}}

ReadQueriesOf(d) == IdQueriesOf(d) \cup ValueQueries(d) \cup {UnmatchedQuery}

DeleteQueriesOf(d) == IdQueriesOf(d) \cup NoValueQueries(d) \cup {UnmatchedQuery}

InitKinds ==
    /\ model \in Models
    /\ store = EmptyStore
    /\ last = NoCall
    /\ calls = 0
    /\ live = NoRecords
    /\ deleted = FALSE
    /\ procs = [p \in Procs |-> IdleProc]

\* the records and the query of the calls that may overlap: the records with
\* e-mail "a" and age 5, Delete of identity "1"
ConcInstancesOf(d) ==
    {instance \in InstancesOf(d) :
        Get(instance, FEmail) = GoString(StrA) /\ Get(instance, FAge) = GoInt(5)}

ConcDeletesOf(d) == {IdQuery(d, Id1)}

NextKinds ==
    \/ \E instance \in InstancesOf(model) : SaveCall(instance)
    \/ \E q \in DeleteQueriesOf(model) : DeleteCall(q)
    \/ \E q \in (IF Sequential THEN ReadQueriesOf(model) ELSE {IdQuery(model, Id1)}) : ReadCall(q)
    \/ \E q \in (IF Sequential THEN ListQueriesOf(model) ELSE ValueQueries(model)) : ListCall(q)
    \/ \E p \in Procs : \E instance \in ConcInstancesOf(model) : Begin(p, instance)
    \/ \E p \in Procs : \E q \in ConcDeletesOf(model) : DeleteBegin(p, q)
    \/ \E p \in Procs : StoreCalls(p)

SpecKinds == InitKinds /\ [][NextKinds]_vars

(************** index field names that start with one another **************)
\* the field name "ageGroup"
FAgeGroup == <<97, 103, 101, 71, 114, 111, 117, 112>>

\* indexes on "age" and on "ageGroup"
PrefixNames == NewModel(StrU, <<AgeIndex, ByEquality(FAgeGroup)>>, ZeroIndex)

\* a record with an integer age and a string ageGroup
Member(id, age, group) ==
    (FId :> GoString(id)) @@ (FAge :> GoInt(age)) @@ (FAgeGroup :> GoString(group))

Members == {Member(id, a, g) : id \in {Id1, Id2}, a \in Ages, g \in {StrA, StrB}}

InitNames ==
    /\ model = PrefixNames
    /\ store = EmptyStore
    /\ last = NoCall
    /\ calls = 0
    /\ live = NoRecords
    /\ deleted = FALSE
    /\ procs = [p \in Procs |-> IdleProc]

\* the records of the calls that may overlap: age 5
ConcMembers == {Member(id, 5, g) : id \in {Id1, Id2}, g \in {StrA, StrB}}

NextNames ==
    \/ \E instance \in Members : SaveCall(instance)
    \/ \E q \in NoValueQueries(model) : ListCall(q)
    \/ \E p \in Procs : \E instance \in ConcMembers : Begin(p, instance)
    \/ \E p \in Procs : \E q \in ConcDeletesOf(model) : DeleteBegin(p, q)
    \/ \E p \in Procs : Lookup(p)
    \/ \E p \in Procs : DeleteLookup(p)
    \/ \E p \in Procs : StoreOp(p)

SpecNames == InitNames /\ [][NextNames]_vars

(********************** Save again after a store error *********************)
\* the records saved: identities "1" and "2"
RetryInstances == {User(id, e, a) : id \in {Id1, Id2}, e \in Emails, a \in Ages}

\* the caller calls Save again with the record of the Save that just failed on
\* a store error; this time every store call succeeds
SaveAgainCall ==
    /\ calls < MaxCalls
    /\ Sequential
    /\ last.op = "Save"
    /\ last.fail > 0
    /\ LET returns(r) ==
               /\ store' = r.store
               /\ last' = [op |-> "SaveAgain", arg |-> last.arg, result |-> r.result,
                           out |-> <<>>, pre |-> store, fail |-> 0]
               /\ live' = LiveAfterSave(live, last.arg, r.result)
       IN returns(Save(model, store, last.arg))
    /\ calls' = calls + 1
    /\ UNCHANGED <<model, deleted, procs>>

\* one of the two callers calls Save again, one store call at a time: with the
\* record of its own call that returned a store error, or, not having called
\* yet, with the record of the Save that just failed
BeginAgain(p) ==
    /\ calls < MaxCalls
    /\ LET own == /\ procs[p].pc = "returned"
                  /\ procs[p].op \in {"Save", "SaveAgain"}
                  /\ procs[p].result = ErrStore
           after == procs[p].pc = "idle" /\ last.op = "Save" /\ last.fail > 0
       IN /\ own \/ after
          /\ procs' = [procs EXCEPT ![p] =
                 [IdleProc EXCEPT !.pc = "lookup", !.op = "SaveAgain",
                                  !.instance = IF own THEN procs[p].instance ELSE last.arg]]
    /\ calls' = calls + 1
    /\ last' = NoCall
    /\ UNCHANGED <<model, store, live, deleted>>

NextRetry ==
    \/ \E instance \in RetryInstances : SaveCall(instance)
    \/ \E instance \in RetryInstances : \E n \in 1..MaxLoopOps : SaveCallFailing(instance, n)
    \/ SaveAgainCall
    \/ \E p \in Procs : \E instance \in RetryInstances : Begin(p, instance)
    \/ \E p \in Procs : BeginAgain(p)
    \/ \E p \in Procs : Lookup(p)
    \/ \E p \in Procs : Unique(p)
    \/ \E p \in Procs : StoreOp(p)
    \/ \E p \in Procs : StoreOpFails(p)

SpecRetry == Init /\ [][NextRetry]_vars

(************************ what the store holds ******************************)
\* the keys of one index: namespace ":" indexPrefix ":" ...
IndexHead(d, index) == d.namespace \o <<Colon>> \o indexPrefix(index) \o <<Colon>>

IndexKeys(d, st, index) == {k \in DOMAIN st : IsPrefix(IndexHead(d, index), k)}

\* the identity a serialized record carries, as text
IdOf(js) == Get(DecodeUseNumber(js), FId).s

\* the keys of one index whose record carries the identity id
KeysOf(d, st, index, id) == {k \in IndexKeys(d, st, index) : IdOf(st[k]) = id}

\* the key Save writes for the serialized record js under the index
KeyFor(d, index, js) ==
    indexToKey(d, index, Get(DecodeUseNumber(js), IdField(d)), DecodeUseNumber(js), TRUE).key

\* some record of another identity holds the instance's value of a Unique index
HeldByOther(d, st, instance) ==
    \E j \in 1..Len(d.indexes) :
        /\ d.indexes[j].Unique
        /\ \E k \in IndexKeys(d, st, d.indexes[j]) :
              /\ IdOf(st[k]) # IdOf(Marshal(instance))
              /\ Get(st[k], d.indexes[j].FieldName)
                     = Get(Marshal(instance), d.indexes[j].FieldName)

(***************************************************************************)
(* C1.  Round trip: once Save(r) has succeeded and no Delete was called,   *)
(* Read with the identity query of r's identity returns r, whatever other  *)
(* records are stored (identities that extend r's identity included); no   *)
(* call overlapped another.                                                *)
(***************************************************************************)
C1_RoundTrip ==
    (/\ Sequential
     /\ last.op = "Read"
     /\ last.arg \in IdQueries
     /\ ~deleted
     /\ last.arg.Value.s \in DOMAIN live)
        => (last.result = ErrNone /\ last.out = <<live[last.arg.Value.s]>>)

(***************************************************************************)
(* C2.  After successful Save calls only, none overlapping another, every  *)
(* saved identity has under every index (the declared ones and the         *)
(* identity index) exactly one key: the key of its current field values,   *)
(* holding its current record.                                             *)
(***************************************************************************)
C2_OneKeyPerIndex ==
    (Sequential /\ ~deleted) =>
        \A id \in DOMAIN live :
            \A j \in 1..Len(AllIndexes(model)) :
                LET index == AllIndexes(model)[j]
                    key == KeyFor(model, index, live[id])
                IN /\ KeysOf(model, store, index, id) = {key}
                   /\ store[key] = live[id]

(***************************************************************************)
(* C3.  After Save and Delete calls none of which overlapped another, no   *)
(* two stored records with different identities have the same value of the *)
(* field of a Unique index.                                                *)
(***************************************************************************)
C3_UniqueHolds ==
    \A j \in 1..Len(model.indexes) :
        (Sequential /\ model.indexes[j].Unique) =>
            \A k1, k2 \in IndexKeys(model, store, model.indexes[j]) :
                IdOf(store[k1]) # IdOf(store[k2]) =>
                    Get(store[k1], model.indexes[j].FieldName)
                        # Get(store[k2], model.indexes[j].FieldName)

\* a Save was refused for uniqueness while the index holds two identities
C3_Witness ==
    /\ last.op = "Save"
    /\ last.result = ErrUniqueViolated
    /\ Cardinality({IdOf(store[k]) : k \in IndexKeys(model, store, EmailIndex)}) >= 2

(***************************************************************************)
(* C4.  A Save of a record whose Unique value another identity holds       *)
(* returns the uniqueness error and leaves the store exactly as it was.    *)
(***************************************************************************)
C4_NoWriteOnViolation ==
    (last.op = "Save" /\ HeldByOther(model, last.pre, last.arg))
        => (/\ last.result \in {ErrUniqueViolated, ErrUniqueMultiple}
            /\ store = last.pre)

\* the refused Save: the holder's record is still read back by its identity
C4_Witness ==
    /\ last.op = "Save"
    /\ HeldByOther(model, last.pre, last.arg)
    /\ last.result = ErrUniqueViolated
    /\ \E id \in DOMAIN live :
          /\ Get(live[id], FEmail) = Get(Marshal(last.arg), FEmail)
          /\ Read(model, store, IdQuery(model, id)).out = <<live[id]>>

(***************************************************************************)
(* C5.  Delete with the identity query for v, a stored identity, succeeds, *)
(* leaves no record readable by identity v, and leaves the identity keys   *)
(* of every other identity as they were.                                   *)
(***************************************************************************)
C5_DeleteOnlyThatRecord ==
    (/\ last.op = "Delete"
     /\ last.arg \in IdQueries
     /\ KeysOf(model, last.pre, model.options.IdIndex, last.arg.Value.s) # {})
        => (/\ last.result = ErrNone
            /\ Read(model, store, last.arg).err = ErrorNotFound
            /\ \A k \in IndexKeys(model, last.pre, model.options.IdIndex) :
                  IdOf(last.pre[k]) # last.arg.Value.s
                      => (k \in DOMAIN store /\ store[k] = last.pre[k]))

(***************************************************************************)
(* C6.  After a successful Delete of a record no declared index lists the  *)
(* deleted record any more.                                                *)
(***************************************************************************)
C6_DeleteRemovesIndexKeys ==
    (last.op = "Delete" /\ last.result = ErrNone)
        => \A j \in 1..Len(model.indexes) :
              LET r == List(model, store, ToQuery(model.indexes[j], Nil))
              IN \A x \in 1..Len(r.out) : IdOf(r.out[x]) # last.arg.Value.s

(***************************************************************************)
(* C9.  When the n-th store call of Save's loop fails, Save returns the    *)
(* store's error; the keys written and deleted by the calls before it stay *)
(* written and deleted, and every key of the indexes not yet reached, the  *)
(* identity index among them, is as it was before the call.                *)
(***************************************************************************)
C9_StoreErrorStopsSave ==
    (last.op = "Save" /\ last.fail > 0) =>
        LET stopped(ops) ==
               /\ last.result = ErrStore
               /\ \A j \in 1..(last.fail - 1) :
                     /\ ops[j].op = "Write"
                           => (ops[j].key \in DOMAIN store /\ store[ops[j].key] = ops[j].value)
                     /\ ops[j].op = "Delete" => ops[j].key \notin DOMAIN store
               /\ \A j \in (ops[last.fail].ix + 1)..Len(AllIndexes(model)) :
                     /\ IndexKeys(model, store, AllIndexes(model)[j])
                            = IndexKeys(model, last.pre, AllIndexes(model)[j])
                     /\ \A k \in IndexKeys(model, store, AllIndexes(model)[j]) :
                            store[k] = last.pre[k]
        IN stopped(LoopOps(model, last.pre, last.arg))

\* the Write of the age index failed after the e-mail key was replaced
C9_Witness ==
    /\ last.op = "Save"
    /\ last.fail > 1
    /\ last.result = ErrStore
    /\ store # last.pre
    /\ \E k \in DOMAIN last.pre : k \notin DOMAIN store
    /\ KeyFor(model, model.options.IdIndex, Marshal(last.arg)) \in DOMAIN store
    /\ store[KeyFor(model, model.options.IdIndex, Marshal(last.arg))] # Marshal(last.arg)

(***************************************************************************)
(* C10.  Save of a record whose identity field is absent or empty fails    *)
(* with the missing-identity error and changes nothing in the store: Save  *)
(* of the model, whose identity field is the configured one, and Save of   *)
(* the earlier variant, whose identity is under "ID" or "id".              *)
(***************************************************************************)
C10_MissingIdentityRejected ==
    /\ (/\ last.op = "Save"
        /\ Get(DecodeUseNumber(Marshal(last.arg)), IdField(model)) \in {Nil, GoString(<<>>)})
           => (last.result = ErrMissingIdentity /\ store = last.pre)
    /\ (/\ last.op = "DbSave"
        /\ Get(Unmarshal(Marshal(last.arg)), FID) \in {Nil, GoString(<<>>)}
        /\ Get(Unmarshal(Marshal(last.arg)), FId) \in {Nil, GoString(<<>>)})
           => (last.result = ErrMissingIdentity /\ store = last.pre)

(***************************************************************************)
(* C7.  Two concurrent Save calls for different identities with the same   *)
(* value of the Unique field, both having made their uniqueness lookups    *)
(* before either wrote: both return success and the unique index then      *)
(* holds the value under both identities.                                  *)
(***************************************************************************)
BothReturned == procs[1].pc = "returned" /\ procs[2].pc = "returned"

BothSaves == procs[1].op = "Save" /\ procs[2].op = "Save"

SavedId(p) == IdOf(Marshal(procs[p].instance))

SavedEmail(p) == Get(Marshal(procs[p].instance), FEmail)

\* two identities hold the same e-mail under the unique index
DuplicateEmail ==
    \E k1, k2 \in IndexKeys(model, store, EmailIndex) :
        /\ IdOf(store[k1]) # IdOf(store[k2])
        /\ Get(store[k1], FEmail) = Get(store[k2], FEmail)

RacedOnUnique ==
    /\ BothReturned
    /\ BothSaves
    /\ SavedId(1) # SavedId(2)
    /\ SavedEmail(1) = SavedEmail(2)
    /\ procs[1].mutAtCheck = 0
    /\ procs[2].mutAtCheck = 0

C7_RaceBreaksUniqueness ==
    RacedOnUnique
        => (procs[1].result = ErrNone /\ procs[2].result = ErrNone /\ DuplicateEmail)

C7_Witness ==
    RacedOnUnique /\ procs[1].result = ErrNone /\ procs[2].result = ErrNone /\ DuplicateEmail

(***************************************************************************)
(* C8.  Two concurrent Save calls for the same identity with different     *)
(* e-mails, both having fetched the previous version before either wrote:  *)
(* both return success and the identity is left with the keys of both      *)
(* e-mails in the index, or with keys that hold different versions.        *)
(***************************************************************************)
RacedOnIdentity ==
    /\ BothReturned
    /\ BothSaves
    /\ SavedId(1) = SavedId(2)
    /\ SavedEmail(1) # SavedEmail(2)
    /\ procs[1].mutAtLookup = 0
    /\ procs[2].mutAtLookup = 0

\* the e-mail index holds the keys of both calls for the identity
StaleKeyRemains ==
    /\ KeyFor(model, EmailIndex, Marshal(procs[1].instance)) \in DOMAIN store
    /\ KeyFor(model, EmailIndex, Marshal(procs[2].instance)) \in DOMAIN store

\* the identity key and the key of one call's e-mail hold different versions
VersionsDiffer ==
    \E p \in Procs :
        LET js == Marshal(procs[p].instance)
            ik == KeyFor(model, model.options.IdIndex, js)
            ek == KeyFor(model, EmailIndex, js)
        IN ik \in DOMAIN store /\ ek \in DOMAIN store /\ store[ik] # store[ek]

C8_RaceLeavesInconsistentIndex ==
    RacedOnIdentity
        => (/\ procs[1].result = ErrNone
            /\ procs[2].result = ErrNone
            /\ (StaleKeyRemains \/ VersionsDiffer))

C8_Witness ==
    /\ RacedOnIdentity
    /\ procs[1].result = ErrNone
    /\ procs[2].result = ErrNone
    /\ StaleKeyRemains
    /\ VersionsDiffer

(***************************************************************************)
(* C11.  Save of a record in which the field of a declared index is absent *)
(* or null returns an error value to the caller: it does not succeed and   *)
(* it does not panic.                                                      *)
(***************************************************************************)
\* some declared index of d is on a field the record leaves absent or null
HasUnencodable(d, instance) ==
    \E j \in 1..Len(d.indexes) :
        Get(DecodeUseNumber(Marshal(instance)), d.indexes[j].FieldName) = Nil

C11_UnsupportedValueIsError ==
    (last.op = "Save" /\ HasUnencodable(model, last.arg))
        => last.result \notin {ErrNone, Panic}

(***************************************************************************)
(* C12.  List and Read answer through the first index, of the declared     *)
(* indexes followed by the identity index, whose field name, kind and      *)
(* order type equal the query's; a query no index matches (the same field  *)
(* with another order type included) gets the no-matching-index error and  *)
(* no result.                                                              *)
(***************************************************************************)
\* the positions of the indexes whose triple equals the query's
Candidates(d, q) ==
    {k \in 1..Len(AllIndexes(d)) :
        /\ AllIndexes(d)[k].FieldName = q.FieldName
        /\ AllIndexes(d)[k].Type = q.Type
        /\ AllIndexes(d)[k].Order.Type = q.Order.Type}

\* the stored values under the key that index k gives the query, in key order
ValuesThrough(d, st, k, q) ==
    LET values(recs) == [j \in 1..Len(recs) |-> recs[j].Value]
    IN values(StoreRead(st, queryToListKey(d, AllIndexes(d)[k], q).key))

C12_FirstMatchingIndex ==
    last.op \in {"Read", "List"} =>
        LET hits == Candidates(model, last.arg)
            first == CHOOSE k \in hits : \A x \in hits : k <= x
        IN IF hits = {}
           THEN last.result = ErrNoIndex /\ last.out = <<>>
           ELSE /\ last.result # ErrNoIndex
                /\ last.op = "List" => last.out = ValuesThrough(model, last.pre, first, last.arg)
                /\ (last.op = "Read" /\ last.result = ErrNone)
                       => last.out = ValuesThrough(model, last.pre, first, last.arg)

\* a List that two declared indexes match, answered through the first: the
\* second index would have given two entries
C12_Witness ==
    /\ last.op = "List"
    /\ Cardinality(Candidates(model, last.arg)) = 2
    /\ Len(last.out) = 1
    /\ \E k \in Candidates(model, last.arg) :
          Len(ValuesThrough(model, last.pre, k, last.arg)) = 2

(***************************************************************************)
(* C13.  List on the ascending integer index with no value returns the     *)
(* saved records in ascending order of the integer field, negative values  *)
(* included; no call overlapped another.                                   *)
(***************************************************************************)
\* the age a serialized record carries
AgeOf(js) == Get(js, FAge).n

\* the entries of a List result, as a set
Listed(out) == {out[x] : x \in 1..Len(out)}

C13_AscendingIntegerOrder ==
    (Sequential /\ last.op = "List" /\ last.arg = ToQuery(AgeIndex, Nil) /\ ~deleted)
        => (/\ last.result = ErrNone
            /\ \A id \in DOMAIN live : live[id] \in Listed(last.out)
            /\ \A x, y \in 1..Len(last.out) :
                  x < y => AgeOf(last.out[x]) <= AgeOf(last.out[y]))

(***************************************************************************)
(* C14.  List on the descending integer index with no value returns the    *)
(* saved records, whose values are non-negative, in descending order of    *)
(* the integer field: the key of a larger value sorts strictly before the  *)
(* key of a smaller one, and every key's value fragment is 19 wide; no     *)
(* call overlapped another.                                                *)
(***************************************************************************)
\* the width of the value fragment of key k of the index: what lies between the
\* index head and the ":" before the identity
FragmentWidth(d, st, index, k) == Len(k) - Len(IndexHead(d, index)) - 1 - Len(IdOf(st[k]))

C14_DescendingIntegerOrder ==
    (Sequential /\ last.op = "List" /\ last.arg = ToQuery(AgeDescIndex, Nil) /\ ~deleted)
        => (/\ last.result = ErrNone
            /\ \A id \in DOMAIN live : live[id] \in Listed(last.out)
            /\ \A x, y \in 1..Len(last.out) :
                  x < y => AgeOf(last.out[x]) >= AgeOf(last.out[y])
            /\ \A k1, k2 \in IndexKeys(model, store, AgeDescIndex) :
                  AgeOf(store[k1]) < AgeOf(store[k2]) => LexLess(k2, k1)
            /\ \A k \in IndexKeys(model, store, AgeDescIndex) :
                  FragmentWidth(model, store, AgeDescIndex, k) = IntPadWidth)

\* three different values listed, the largest 32-bit value first and 0 last
C14_Witness ==
    /\ Sequential
    /\ last.op = "List"
    /\ last.arg = ToQuery(AgeDescIndex, Nil)
    /\ last.result = ErrNone
    /\ Len(last.out) = 3
    /\ AgeOf(last.out[1]) = MaxInt32
    /\ AgeOf(last.out[2]) = 5
    /\ AgeOf(last.out[3]) = 0

(***************************************************************************)
(* C15.  Under an ascending string index with pad length L, the key of a   *)
(* string shorter than L sorts strictly before the key of every longer     *)
(* string that starts with it, whatever characters the strings contain.    *)
(***************************************************************************)
\* the e-mail a serialized record carries, as text
EmailOf(js) == Get(js, FEmail).s

\* s is a proper prefix of t
ProperPrefix(s, t) == Len(s) < Len(t) /\ IsPrefix(s, t)

C15_ShorterStringSortsFirst ==
    \A j \in 1..Len(model.indexes) :
        LET index == model.indexes[j]
        IN (index.FieldName = FEmail /\ index.Order = [FieldName |-> FEmail, Type |-> OrderTypeAsc])
              => \A k1, k2 \in IndexKeys(model, store, index) :
                    (/\ Len(EmailOf(store[k1])) < index.StringOrderPadLength
                     /\ ProperPrefix(EmailOf(store[k1]), EmailOf(store[k2])))
                        => LexLess(k1, k2)

(***************************************************************************)
(* C16.  Under every index the keys Save writes for two records with       *)
(* different identities are different, so no Save overwrites the index     *)
(* entry of another record.                                                *)
(***************************************************************************)
C16_KeysOfRecordsDiffer ==
    \A j \in 1..Len(AllIndexes(model)) :
        \A id1, id2 \in DOMAIN live :
            (Sequential /\ id1 # id2) =>
                LET k1 == KeyFor(model, AllIndexes(model)[j], live[id1])
                IN /\ k1 # KeyFor(model, AllIndexes(model)[j], live[id2])
                   /\ (/\ last.op = "Save"
                       /\ last.result = ErrNone
                       /\ IdOf(Marshal(last.arg)) = id2
                       /\ k1 \in DOMAIN last.pre
                       /\ last.pre[k1] = live[id1])
                          => (k1 \in DOMAIN store /\ store[k1] = live[id1])

(***************************************************************************)
(* C17.  Delete with a query that is not an identity query returns the     *)
(* unsupported-query error, and Delete with the identity query of an       *)
(* identity no stored record has returns the not-found error; in both      *)
(* cases the store is left as it was.                                      *)
(***************************************************************************)
\* the query has the shape of the identity index: equality on "id", unordered
IdentityShape(q) ==
    q.FieldName = FId /\ q.Type = queryTypeEq /\ q.Order.Type = OrderTypeUnordered

C17_RefusedDeleteChangesNothing ==
    last.op = "Delete" =>
        /\ ~IdentityShape(last.arg)
              => (last.result = ErrDeleteQuery /\ store = last.pre)
        /\ (/\ IdentityShape(last.arg)
            /\ KeysOf(model, last.pre, model.options.IdIndex, last.arg.Value.s) = {})
              => (last.result = ErrNoEntry /\ store = last.pre)

(***************************************************************************)
(* C18.  Read returns the record exactly when the prefix scan of its query *)
(* yields one store entry; with no entry it returns the not-found error,   *)
(* with several the multiple-records-found error, and in both cases it     *)
(* leaves the caller's result as it was.                                   *)
(***************************************************************************)
\* the store entries under the key the first matching index gives the query
Scanned(d, st, q) ==
    LET hits == Candidates(d, q)
        first == CHOOSE k \in hits : \A x \in hits : k <= x
    IN {k \in DOMAIN st : IsPrefix(queryToListKey(d, AllIndexes(d)[first], q).key, k)}

C18_ReadExactlyOne ==
    (last.op = "Read" /\ Candidates(model, last.arg) # {}) =>
        LET found == Scanned(model, last.pre, last.arg)
        IN /\ found = {} => (last.result = ErrorNotFound /\ last.out = <<>>)
           /\ Cardinality(found) > 1
                 => (last.result = ErrorMultipleRecordsFound /\ last.out = <<>>)
           /\ Cardinality(found) = 1
                 => (last.result = ErrNone /\ \A k \in found : last.out = <<last.pre[k]>>)

\* a Read whose scan yielded two entries: the error, and no result
C18_Witness ==
    /\ last.op = "Read"
    /\ Candidates(model, last.arg) # {}
    /\ Cardinality(Scanned(model, last.pre, last.arg)) = 2
    /\ last.result = ErrorMultipleRecordsFound
    /\ last.out = <<>>

(***************************************************************************)
(* C19.  Under an index filtered by one field and ordered by another, a    *)
(* Save of a stored identity that changes the order field and keeps the    *)
(* filter field removes the key built from the previous order value: the   *)
(* index holds one key for the identity, the key of the new record.        *)
(***************************************************************************)
\* the previous version of the saved record: what the store held under its identity key
PreviousVersion(d, st, instance) == st[KeyFor(d, d.options.IdIndex, Marshal(instance))]

\* the last call was a successful Save of a stored identity that kept the
\* filter field (e-mail) and changed the order field (age)
ResavedWithNewOrderValue ==
    /\ last.op = "Save"
    /\ last.result = ErrNone
    /\ KeyFor(model, model.options.IdIndex, Marshal(last.arg)) \in DOMAIN last.pre
    /\ EmailOf(PreviousVersion(model, last.pre, last.arg)) = EmailOf(Marshal(last.arg))
    /\ AgeOf(PreviousVersion(model, last.pre, last.arg)) # AgeOf(Marshal(last.arg))

C19_StaleOrderKeyDeleted ==
    (model = FilterOrder /\ ResavedWithNewOrderValue)
        => (/\ KeyFor(model, EmailByAgeIndex, PreviousVersion(model, last.pre, last.arg))
                   \notin DOMAIN store
            /\ KeysOf(model, store, EmailByAgeIndex, IdOf(Marshal(last.arg)))
                   = {KeyFor(model, EmailByAgeIndex, Marshal(last.arg))})

(***************************************************************************)
(* C20.  Save returns a uniqueness error only when a stored record of      *)
(* another identity holds a value equal to the saved record's value of a   *)
(* Unique field; a value that is only a prefix of another record's value   *)
(* does not count.                                                         *)
(***************************************************************************)
C20_UniqueErrorOnlyWhenHeld ==
    (/\ last.op = "Save"
     /\ last.result \in {ErrUniqueViolated, ErrUniqueMultiple}
     /\ ~HasUnencodable(model, last.arg))
        => HeldByOther(model, last.pre, last.arg)

(***************************************************************************)
(* C21.  The key scanned for an equality query with value v is a prefix of *)
(* the key Save writes for a record whose field equals v, and of no key    *)
(* Save writes for a record whose field differs: a List by value returns   *)
(* exactly the records holding v.                                          *)
(***************************************************************************)
\* the serialized record has a value other than null for the field
HasField(js, f) == f \in DOMAIN js /\ js[f].t # "null"

C21_ScanKeyMatchesEqualValues ==
    (/\ last.op = "List"
     /\ last.arg.Value # Nil
     /\ Candidates(model, last.arg) # {})
        => LET hits == Candidates(model, last.arg)
               index == AllIndexes(model)[CHOOSE k \in hits : \A x \in hits : k <= x]
               scanned(prefix) ==
                   \A k \in DOMAIN last.pre :
                       HasField(last.pre[k], index.FieldName)
                           => (IsPrefix(prefix, KeyFor(model, index, last.pre[k]))
                                  <=> last.pre[k][index.FieldName] = MarshalValue(last.arg.Value))
           IN scanned(queryToListKey(model, index, last.arg).key)

(***************************************************************************)
(* C22.  After n records of different identities were each saved once,     *)
(* List with no value on a declared index returns n entries, one for each  *)
(* identity, also when the field name of one declared index starts with    *)
(* the field name of another.                                              *)
(***************************************************************************)
\* every call so far ran alone and was a successful Save of an identity not
\* saved before
EachSavedOnce == Sequential /\ ~deleted /\ Cardinality(DOMAIN live) = calls

C22_ListReturnsOnePerIdentity ==
    (/\ last.op = "List"
     /\ last.arg \in NoValueQueries(model)
     /\ EachSavedOnce)
        => (/\ last.result = ErrNone
            /\ Len(last.out) = calls
            /\ {IdOf(last.out[x]) : x \in 1..Len(last.out)} = DOMAIN live)

(***************************************************************************)
(* C23.  A Save that failed on a store error leaves the identity key at    *)
(* the previous version, and Save called again with the same record, with  *)
(* no store error, leaves under every index exactly one key for the        *)
(* identity: the key of the new values.                                    *)
(***************************************************************************)
\* the identity key of the record is in st1 what it is in st2
SameIdentityKey(d, st1, st2, instance) ==
    LET same(k) == /\ k \in DOMAIN st1 <=> k \in DOMAIN st2
                   /\ k \in DOMAIN st1 => st1[k] = st2[k]
    IN same(KeyFor(d, d.options.IdIndex, Marshal(instance)))

C23_SaveAgainRepairsIndexes ==
    /\ (last.op = "Save" /\ last.fail > 0)
          => SameIdentityKey(model, store, last.pre, last.arg)
    /\ (last.op = "SaveAgain" /\ last.result = ErrNone)
          => \A j \in 1..Len(AllIndexes(model)) :
                KeysOf(model, store, AllIndexes(model)[j], IdOf(Marshal(last.arg)))
                    = {KeyFor(model, AllIndexes(model)[j], Marshal(last.arg))}

====
